---- MODULE Spec2Model ----
(***************************************************************************)
(* A model of lib/index.js of txt-to-epub-converter: the class             *)
(* TxtToEpubConverter (line filter, numeral normaliser, chapter segmenter, *)
(* deduplicator) and its convertTxtToEpub method.                          *)
(*                                                                         *)
(* A JavaScript string is a sequence of UTF-16 code units, each a number;  *)
(* every character the model uses lies in the basic plane, so a code unit  *)
(* is the character's code point.  A regular expression's character class  *)
(* is a set of code units.                                                 *)
(***************************************************************************)
EXTENDS Integers, Sequences, FiniteSets, TLC

VARIABLES
    pc,              \* where the modelled call stands
    chinese,         \* the argument of chineseNumeralToNumber
    denoted,         \* the integer that argument was written from, if one
    numResult,       \* what chineseNumeralToNumber returned
    content,         \* the argument of splitIntoChapters (processedContent in convertTxtToEpub)
    segmented,       \* `chapters` of splitIntoChapters / the argument of removeDuplicateChapters
    uniqueChapters,  \* what removeDuplicateChapters (and so splitIntoChapters) returned
    constructed,     \* this.options as the constructor left it
    options,         \* this.options of the converter: filterAds, adKeywords
    call,            \* the arguments of the convertTxtToEpub call in progress, and the file it reads
    filteredCount,   \* filteredCount of processTextFile, null when it filtered nothing
    epubCalls,       \* how many times `new EPub(...)` ran in this call
    outcome,         \* how the call ended: "none", "resolved", "rejected"
    result,          \* chapters and totalWords of the object a resolved call returns
    calls            \* number of convertTxtToEpub calls made on the instance

vars == <<pc, constructed, chinese, denoted, numResult, content, segmented, uniqueChapters,
          options, call, filteredCount, epubCalls, outcome, result, calls>>

-----------------------------------------------------------------------------
(* Characters: UTF-16 code units.                                          *)

ChDi     == 31532   \* U+7B2C, the heading's first character
ChZhang  == 31456   \* U+7AE0, the heading's closing character
ChLing   == 38646   \* U+96F6 zero
ChYi     == 19968   \* U+4E00 one
ChEr     == 20108   \* U+4E8C two
ChSan    == 19977   \* U+4E09 three
ChSi     == 22235   \* U+56DB four
ChWu     == 20116   \* U+4E94 five
ChLiu    == 20845   \* U+516D six
ChQi     == 19971   \* U+4E03 seven
ChBa     == 20843   \* U+516B eight
ChJiu    == 20061   \* U+4E5D nine
ChLiang  == 20004   \* U+4E24 two (variant)
ChShi    == 21313   \* U+5341 ten
ChBai    == 30334   \* U+767E hundred
ChQian   == 21315   \* U+5343 thousand
ChWan    == 19975   \* U+4E07 ten thousand
ChYi8    == 20159   \* U+4EBF hundred million
ChBen    == 26412   \* U+672C
ChZan    == 26242   \* U+6682
ChWuNone == 26080   \* U+65E0
ChNei    == 20869   \* U+5185
ChRong   == 23481   \* U+5BB9
ChLParen == 40      \* (
ChRParen == 41      \* )
ChSpace  == 32
ChNL     == 10      \* \n
ChZero   == 48      \* 0
ChNine   == 57      \* 9
ChLowerA == 97      \* a
ChLowerZ == 122
ChUpperA == 65
ChUpperZ == 90
CjkFirst == 19968   \* 一
CjkLast  == 40869   \* 龥

\* \d
IsDigit(c) == c \in ChZero..ChNine

\* \s of a JavaScript regular expression, which is also what trim() removes
WhiteSpace == {9, 10, 11, 12, 13, 32, 160, 5760, 8232, 8233, 8239, 8287, 12288, 65279}
                 \cup (8192..8202)
IsSpace(c) == c \in WhiteSpace

\* what `.` does not match
LineTerminators == {10, 13, 8232, 8233}

\* const map, const unitMap
map == [c \in {ChLing, ChYi, ChEr, ChSan, ChSi, ChWu, ChLiu, ChQi, ChBa, ChJiu, ChLiang} |->
          CASE c = ChLing -> 0 [] c = ChYi -> 1 [] c = ChEr -> 2 [] c = ChSan -> 3
            [] c = ChSi -> 4 [] c = ChWu -> 5 [] c = ChLiu -> 6 [] c = ChQi -> 7
            [] c = ChBa -> 8 [] c = ChJiu -> 9 [] c = ChLiang -> 2]
unitMap == [c \in {ChShi, ChBai, ChQian, ChWan, ChYi8} |->
          CASE c = ChShi -> 10 [] c = ChBai -> 100 [] c = ChQian -> 1000
            [] c = ChWan -> 10000 [] c = ChYi8 -> 100000000]

-----------------------------------------------------------------------------
(* String helpers.                                                         *)

RECURSIVE Concat(_)
\* the concatenation of a sequence of strings
Concat(ss) == IF ss = <<>> THEN <<>> ELSE Head(ss) \o Concat(Tail(ss))

\* str.substring(0, n)
Substring0(s, n) == SubSeq(s, 1, IF n < Len(s) THEN n ELSE Len(s))

\* s.includes(k)
Includes(s, k) ==
    \E i \in 1..(Len(s) - Len(k) + 1) : SubSeq(s, i, i + Len(k) - 1) = k

RECURSIVE TrimStart(_)
TrimStart(s) == IF s # <<>> /\ IsSpace(Head(s)) THEN TrimStart(Tail(s)) ELSE s

RECURSIVE TrimEnd(_)
TrimEnd(s) ==
    IF s # <<>> /\ IsSpace(s[Len(s)]) THEN TrimEnd(SubSeq(s, 1, Len(s) - 1)) ELSE s

\* str.trim()
Trim(s) == TrimEnd(TrimStart(s))

RECURSIVE SplitFrom(_, _, _)
\* the pieces of s from position i on, cur being the piece under construction
SplitFrom(s, i, cur) ==
    IF i > Len(s) THEN <<cur>>
    ELSE IF s[i] = ChNL THEN <<cur>> \o SplitFrom(s, i + 1, <<>>)
    ELSE SplitFrom(s, i + 1, Append(cur, s[i]))

\* str.split('\n')
Split(s) == SplitFrom(s, 1, <<>>)

RECURSIVE Join(_)
\* lines.join('\n')
Join(lines) ==
    IF lines = <<>> THEN <<>>
    ELSE IF Len(lines) = 1 THEN lines[1]
    ELSE lines[1] \o <<ChNL>> \o Join(Tail(lines))

RECURSIVE parseInt(_, _)
\* parseInt(digits, 10) of a string of ASCII digits, acc being the value read so far
parseInt(digits, acc) ==
    IF digits = <<>> THEN acc
    ELSE parseInt(Tail(digits), acc * 10 + (Head(digits) - ChZero))

RECURSIVE NumberToString(_)
\* `${n}` of a non-negative integer below 1e21
NumberToString(n) ==
    IF n < 10 THEN <<ChZero + n>>
    ELSE Append(NumberToString(n \div 10), ChZero + (n % 10))

-----------------------------------------------------------------------------
(* chineseNumeralToNumber                                                  *)

\* a JavaScript value handed to chineseNumeralToNumber
StringValue(s) == [type |-> "string", chars |-> s]
NonStrings == {[type |-> "undefined", chars |-> <<>>],
               [type |-> "object", chars |-> <<>>],     \* null
               [type |-> "number", chars |-> <<>>]}

\* what it returns: null, or a number
Null == [null |-> TRUE, value |-> 0]
Number(n) == [null |-> FALSE, value |-> n]

\* /^\d+$/.test(s)
AllDigits(s) == s # <<>> /\ \A i \in 1..Len(s) : IsDigit(s[i])

\* an implicit 1 is NOT supplied before a small unit
NumeralStepNoImplicitOne(st, ch) ==
    IF ch \in DOMAIN map THEN [st EXCEPT !.number = map[ch]]
    ELSE IF ch \in DOMAIN unitMap THEN
        IF unitMap[ch] >= 10000
        THEN [result |-> st.result + (st.section + st.number) * unitMap[ch],
              section |-> 0, number |-> 0]
        ELSE [result |-> st.result,
              section |-> st.section + st.number * unitMap[ch],
              number |-> 0]
    ELSE [st EXCEPT !.number = 0]

\* an implicit 1 is supplied before a large unit too
NumeralStepImplicitOneBeforeLarge(st, ch) ==
    IF ch \in DOMAIN map THEN [st EXCEPT !.number = map[ch]]
    ELSE IF ch \in DOMAIN unitMap THEN
        IF unitMap[ch] >= 10000
        THEN [result |-> st.result
                           + (st.section + (IF st.number # 0 THEN st.number ELSE 1)) * unitMap[ch],
              section |-> 0, number |-> 0]
        ELSE [result |-> st.result,
              section |-> st.section + (IF st.number # 0 THEN st.number ELSE 1) * unitMap[ch],
              number |-> 0]
    ELSE [st EXCEPT !.number = 0]

\* one iteration of the for loop over the characters
NumeralStep(st, ch) ==
    IF ch \in DOMAIN map THEN [st EXCEPT !.number = map[ch]]
    ELSE IF ch \in DOMAIN unitMap THEN
        IF unitMap[ch] >= 10000
        THEN [result |-> st.result + (st.section + st.number) * unitMap[ch],
              section |-> 0, number |-> 0]
        ELSE [result |-> st.result,
              section |-> st.section + (IF st.number # 0 THEN st.number ELSE 1) * unitMap[ch],
              number |-> 0]
    ELSE [st EXCEPT !.number = 0]

RECURSIVE NumeralLoop(_, _)
NumeralLoop(s, st) ==
    IF s = <<>> THEN st ELSE NumeralLoop(Tail(s), NumeralStep(st, Head(s)))

chineseNumeralToNumber(v) ==
    IF v.type # "string" \/ v.chars = <<>> THEN Null
    ELSE IF AllDigits(v.chars) THEN Number(parseInt(v.chars, 0))
    ELSE LET st == NumeralLoop(v.chars, [result |-> 0, section |-> 0, number |-> 0])
         IN  Number(st.result + st.section + st.number)

-----------------------------------------------------------------------------
(* splitIntoChapters                                                       *)

\* the character class of the heading's numeral: [零一二三四五六七八九十百千万两亿\d]
NumeralClass == {ChLing, ChYi, ChEr, ChSan, ChSi, ChWu, ChLiu, ChQi, ChBa, ChJiu,
                 ChShi, ChBai, ChQian, ChWan, ChLiang, ChYi8} \cup (ChZero..ChNine)

RECURSIVE RunLength(_, _, _)
\* the length of the longest run of characters of class S in s from position i
RunLength(s, i, S) ==
    IF i <= Len(s) /\ s[i] \in S THEN 1 + RunLength(s, i + 1, S) ELSE 0

RECURSIVE AnyRunLength(_, _, _)
\* the same for the characters outside S
AnyRunLength(s, i, S) ==
    IF i <= Len(s) /\ s[i] \notin S THEN 1 + AnyRunLength(s, i + 1, S) ELSE 0

\* the numeral's class lacks \d
ChapterMatchNoDigits(line) ==
    LET class == NumeralClass \ (ChZero..ChNine)
        k  == RunLength(line, 2, class)
        ws == RunLength(line, k + 3, WhiteSpace)
        n  == AnyRunLength(line, k + 3 + ws, LineTerminators)
    IN  IF Len(line) >= 3 /\ line[1] = ChDi /\ k >= 1
           /\ Len(line) >= k + 2 /\ line[k + 2] = ChZhang
        THEN [matched |-> TRUE,
              g1 |-> SubSeq(line, 2, k + 1),
              g2 |-> SubSeq(line, k + 3 + ws, k + 2 + ws + n)]
        ELSE [matched |-> FALSE, g1 |-> <<>>, g2 |-> <<>>]

\* line.match(/^第([零一二三四五六七八九十百千万两亿\d]+)章(?:\s*(.*))?/):
\* the class does not hold 章, so the greedy run is the only split that can match
ChapterMatch(line) ==
    LET k  == RunLength(line, 2, NumeralClass)
        ws == RunLength(line, k + 3, WhiteSpace)
        n  == AnyRunLength(line, k + 3 + ws, LineTerminators)
    IN  IF Len(line) >= 3 /\ line[1] = ChDi /\ k >= 1
           /\ Len(line) >= k + 2 /\ line[k + 2] = ChZhang
        THEN [matched |-> TRUE,
              g1 |-> SubSeq(line, 2, k + 1),
              g2 |-> SubSeq(line, k + 3 + ws, k + 2 + ws + n)]
        ELSE [matched |-> FALSE, g1 |-> <<>>, g2 |-> <<>>]

\* '(本章暂无内容)'
Placeholder == <<ChLParen, ChBen, ChZhang, ChZan, ChWuNone, ChNei, ChRong, ChRParen>>

\* { title: currentChapter, data: chapterData.length > 0 ? chapterData : '(本章暂无内容)' }
ChapterOf(currentChapter, currentContent) ==
    LET chapterData == Trim(Join(currentContent))
    IN  [title |-> currentChapter,
         data  |-> IF Len(chapterData) > 0 THEN chapterData ELSE Placeholder]

\* the title keeps the numeral as written
TitleOfRawNumeral(line, m) ==
    LET suffix == IF m.g2 # <<>> THEN Trim(m.g2) ELSE <<>>
    IN  Trim(<<ChDi>> \o m.g1 \o <<ChZhang>>
             \o (IF suffix # <<>> THEN <<ChSpace>> \o suffix ELSE <<>>))

\* the title a matched heading line gets
TitleOf(line, m) ==
    LET suffix == IF m.g2 # <<>> THEN Trim(m.g2) ELSE <<>>
        arabic == chineseNumeralToNumber(StringValue(m.g1))
    IN  IF ~arabic.null
        THEN Trim(<<ChDi>> \o NumberToString(arabic.value) \o <<ChZhang>>
                  \o (IF suffix # <<>> THEN <<ChSpace>> \o suffix ELSE <<>>))
        ELSE Trim(line)

\* one iteration of `for (const line of lines)`; currentChapter = <<>> stands for null
SegmentStep(st, line) ==
    LET m == ChapterMatch(line)
    IN  IF m.matched
        THEN [chapters |-> IF st.currentChapter # <<>>
                           THEN Append(st.chapters,
                                       ChapterOf(st.currentChapter, st.currentContent))
                           ELSE st.chapters,
              currentChapter |-> TitleOf(line, m),
              currentContent |-> <<>>]
        ELSE IF st.currentChapter # <<>>
             THEN [st EXCEPT !.currentContent = Append(@, line)]
             ELSE st

RECURSIVE SegmentLoop(_, _)
SegmentLoop(lines, st) ==
    IF lines = <<>> THEN st ELSE SegmentLoop(Tail(lines), SegmentStep(st, Head(lines)))

\* the chapter open at the end of the input is not added
SegmentNoFlush(text) ==
    SegmentLoop(Split(text),
                [chapters |-> <<>>, currentChapter |-> <<>>, currentContent |-> <<>>]).chapters

\* `chapters` of splitIntoChapters when removeDuplicateChapters is called
Segment(text) ==
    LET st == SegmentLoop(Split(text),
                          [chapters |-> <<>>, currentChapter |-> <<>>, currentContent |-> <<>>])
    IN  IF st.currentChapter # <<>>
        THEN Append(st.chapters, ChapterOf(st.currentChapter, st.currentContent))
        ELSE st.chapters

-----------------------------------------------------------------------------
(* removeDuplicateChapters                                                 *)

\* the default of the parameter n of getFirstNChars
FingerprintLen == 5

\* [一-龥a-zA-Z0-9]
FingerprintClass == (CjkFirst..CjkLast) \cup (ChLowerA..ChLowerZ)
                      \cup (ChUpperA..ChUpperZ) \cup (ChZero..ChNine)

getFirstNChars(text) ==
    Substring0(SelectSeq(text, LAMBDA c : c \in FingerprintClass), FingerprintLen)

\* title.match(/^第(\d+)章/): the chapter number, or null
ChapterNumber(title) ==
    LET k == RunLength(title, 2, ChZero..ChNine)
    IN  IF Len(title) >= 3 /\ title[1] = ChDi /\ k >= 1
           /\ Len(title) >= k + 2 /\ title[k + 2] = ChZhang
        THEN Number(parseInt(SubSeq(title, 2, k + 1), 0))
        ELSE Null

RECURSIVE GroupLoop(_, _)
\* the Map chapterMap as the sequence of its entries, in insertion order
GroupLoop(chapters, chapterMap) ==
    IF chapters = <<>> THEN chapterMap
    ELSE LET chapter == Head(chapters)
             num     == ChapterNumber(chapter.title)
             at      == {i \in 1..Len(chapterMap) : chapterMap[i].num = num.value}
         IN  GroupLoop(Tail(chapters),
                 IF num.null THEN chapterMap
                 ELSE IF at = {}
                 THEN Append(chapterMap, [num |-> num.value, list |-> <<chapter>>])
                 ELSE [i \in 1..Len(chapterMap) |->
                         IF i \in at
                         THEN [chapterMap[i] EXCEPT !.list = Append(@, chapter)]
                         ELSE chapterMap[i]])

\* an empty fingerprint counts as a match
IsDuplicateEvenIfEmpty(kept, current) ==
    \E j \in 1..Len(kept) : getFirstNChars(current.data) = getFirstNChars(kept[j].data)

\* one iteration of `for (let i = 1; ...)`: is `current` a duplicate of a kept chapter
IsDuplicate(kept, current) ==
    LET currentFirst5 == getFirstNChars(current.data)
    IN  \E j \in 1..Len(kept) :
            /\ currentFirst5 = getFirstNChars(kept[j].data)
            /\ Len(currentFirst5) > 0

RECURSIVE KeepLoop(_, _)
KeepLoop(rest, kept) ==
    IF rest = <<>> THEN kept
    ELSE KeepLoop(Tail(rest),
                  IF IsDuplicate(kept, Head(rest)) THEN kept ELSE Append(kept, Head(rest)))

\* what one entry of chapterMap pushes to uniqueChapters
KeptOf(chapterList) ==
    IF Len(chapterList) = 1 THEN chapterList
    ELSE KeepLoop(Tail(chapterList), <<chapterList[1]>>)

\* the comparator's operands are swapped
CompareReversed(a, b) ==
    LET matchA == ChapterNumber(a.title)
        matchB == ChapterNumber(b.title)
    IN  IF ~matchA.null /\ ~matchB.null THEN matchB.value - matchA.value ELSE 0

\* the comparator handed to sort
Compare(a, b) ==
    LET matchA == ChapterNumber(a.title)
        matchB == ChapterNumber(b.title)
    IN  IF ~matchA.null /\ ~matchB.null THEN matchA.value - matchB.value ELSE 0

RECURSIVE InsertBeforeEqual(_, _)
\* x is put before the elements it compares equal to: a sort that is not stable
InsertBeforeEqual(s, x) ==
    IF s # <<>> /\ Compare(s[Len(s)], x) >= 0
    THEN Append(InsertBeforeEqual(SubSeq(s, 1, Len(s) - 1), x), s[Len(s)])
    ELSE Append(s, x)

RECURSIVE Insert(_, _)
\* x put into the sorted sequence s, after every element it does not precede
Insert(s, x) ==
    IF s # <<>> /\ Compare(s[Len(s)], x) > 0
    THEN Append(Insert(SubSeq(s, 1, Len(s) - 1), x), s[Len(s)])
    ELSE Append(s, x)

RECURSIVE SortLoop(_, _)
\* Array.prototype.sort, which is stable (ECMAScript 2019)
SortLoop(s, sorted) ==
    IF s = <<>> THEN sorted ELSE SortLoop(Tail(s), Insert(sorted, Head(s)))

Sort(s) == SortLoop(s, <<>>)

removeDuplicateChapters(chapters) ==
    LET chapterMap == GroupLoop(chapters, <<>>)
    IN  Sort(Concat([i \in 1..Len(chapterMap) |-> KeptOf(chapterMap[i].list)]))

splitIntoChapters(text) == removeDuplicateChapters(Segment(text))

-----------------------------------------------------------------------------
(* Inputs of the normaliser: numerals written the usual way.               *)

MaxNumeral == 9999   \* the largest integer written as a Chinese numeral
MaxDigits  == 3      \* the longest ASCII decimal string

DigitChar(d) ==
    CASE d = 0 -> ChLing [] d = 1 -> ChYi [] d = 2 -> ChEr [] d = 3 -> ChSan
      [] d = 4 -> ChSi [] d = 5 -> ChWu [] d = 6 -> ChLiu [] d = 7 -> ChQi
      [] d = 8 -> ChBa [] d = 9 -> ChJiu

UnitChar(u) ==
    CASE u = 10 -> ChShi [] u = 100 -> ChBai [] u = 1000 -> ChQian

RECURSIVE WriteSection(_, _, _, _, _, _)
\* n < 10 * unit written from the position `unit` down: one 零 for a run of skipped
\* positions between written ones, 两 for a 2 of hundreds or thousands when liang,
\* a bare 十 for a leading ten when bareTen
WriteSection(n, unit, started, zeroPending, liang, bareTen) ==
    LET d == n \div unit
        r == n % unit
        zero == IF zeroPending THEN <<ChLing>> ELSE <<>>
    IN  IF unit = 1
        THEN IF n = 0 THEN <<>> ELSE zero \o <<DigitChar(n)>>
        ELSE IF d = 0
        THEN WriteSection(r, unit \div 10, started, started, liang, bareTen)
        ELSE zero
             \o (IF d = 1 /\ unit = 10 /\ bareTen /\ ~started THEN <<>>
                 ELSE IF d = 2 /\ unit >= 100 /\ liang THEN <<ChLiang>>
                 ELSE <<DigitChar(d)>>)
             \o <<UnitChar(unit)>>
             \o WriteSection(r, unit \div 10, TRUE, FALSE, liang, bareTen)

\* 1 <= n < 10^8 as a Chinese numeral
WriteNumeral(n, liang, bareTen) ==
    IF n < 10000 THEN WriteSection(n, 1000, FALSE, FALSE, liang, bareTen)
    ELSE WriteSection(n \div 10000, 1000, FALSE, FALSE, liang, bareTen)
         \o <<ChWan>>
         \o WriteSection(n % 10000, 1000, TRUE, FALSE, liang, bareTen)

RECURSIVE Power10(_)
Power10(k) == IF k = 0 THEN 1 ELSE 10 * Power10(k - 1)

RECURSIVE DecimalValue(_)
\* the integer an ASCII decimal string denotes: the sum of its digits' place values
DecimalValue(s) ==
    IF s = <<>> THEN 0
    ELSE (Head(s) - ChZero) * Power10(Len(s) - 1) + DecimalValue(Tail(s))

RECURSIVE DigitStrings(_)
\* the ASCII decimal strings of length k
DigitStrings(k) ==
    IF k = 0 THEN {<<>>}
    ELSE {Append(s, c) : s \in DigitStrings(k - 1), c \in ChZero..ChNine}

-----------------------------------------------------------------------------
(* Values of the variables a specification does not use.                   *)

\* an optional array argument of keywords: absent (undefined), or an array
NoKeywords == [given |-> FALSE, list |-> <<>>]
Keywords(list) == [given |-> TRUE, list |-> list]

NoCall   == [adKeywords |-> NoKeywords, fileExists |-> FALSE, file |-> <<>>]
NoResult == [chapters |-> 0, totalWords |-> 0]

NumIdle ==
    /\ chinese = StringValue(<<>>) /\ denoted = Null /\ numResult = Null
TextIdle ==
    /\ content = <<>> /\ segmented = <<>> /\ uniqueChapters = <<>>
CallIdle ==
    /\ call = NoCall /\ filteredCount = Null
    /\ epubCalls = 0 /\ outcome = "none" /\ result = NoResult
ConverterIdle ==
    /\ options = [filterAds |-> FALSE, adKeywords |-> <<>>] /\ calls = 0
    /\ constructed = options
    /\ CallIdle

-----------------------------------------------------------------------------
(* SpecNum: chineseNumeralToNumber called on one argument.                 *)

MaxRawLen == 3   \* the longest string of numeral characters in any order

\* strings of 零, 一, 十 and 万 in any order, whether or not they are a numeral
RawChars == {ChLing, ChYi, ChShi, ChWan}

\* strings with 亿: 亿, 一亿, 十亿, 一万亿, 十二亿
YiStrings ==
    {<<ChYi8>>, <<ChYi, ChYi8>>, <<ChShi, ChYi8>>, <<ChYi, ChWan, ChYi8>>,
     <<ChShi, ChEr, ChYi8>>}

InitNum ==
    /\ pc = "input"
    /\ \/ \E n \in 1..MaxNumeral, liang \in BOOLEAN, bareTen \in BOOLEAN :
             /\ chinese = StringValue(WriteNumeral(n, liang, bareTen))
             /\ denoted = Number(n)
       \/ \E k \in 0..MaxDigits : \E s \in DigitStrings(k) :
             /\ chinese = StringValue(s)
             /\ denoted = IF s = <<>> THEN Null ELSE Number(DecimalValue(s))
       \/ \E v \in NonStrings : chinese = v /\ denoted = Null
       \/ \E k \in 1..MaxRawLen : \E s \in [1..k -> RawChars] :
             /\ chinese = StringValue(s)
             /\ denoted = Null
       \/ \E s \in YiStrings : chinese = StringValue(s) /\ denoted = Null
    /\ numResult = Null
    /\ TextIdle /\ ConverterIdle

CallNumeral ==
    /\ pc = "input"
    /\ pc' = "done"
    /\ numResult' = chineseNumeralToNumber(chinese)
    /\ UNCHANGED <<constructed, chinese, denoted, content, segmented, uniqueChapters,
                   options, call, filteredCount, epubCalls, outcome, result, calls>>

NextNum == CallNumeral

SpecNum == InitNum /\ [][NextNum]_vars

\* C7: chineseNumeralToNumber returns the integer its argument denotes, for ASCII
\* decimal strings and for Chinese numerals written the usual way (零 for skipped
\* positions, 两 for 2, a bare 十 for a leading ten), so 十二 gives 12, 一百零五 105,
\* 两千三百 2300 and "3" 3; it returns null for the empty string and for a non-string.
NormalizeDenoted ==
    pc = "done" =>
        /\ (chinese.type # "string" \/ chinese.chars = <<>>) <=> numResult.null
        /\ ~denoted.null => numResult = Number(denoted.value)
        /\ chinese = StringValue(<<ChShi, ChEr>>) => numResult = Number(12)
        /\ chinese = StringValue(<<ChYi, ChBai, ChLing, ChWu>>) => numResult = Number(105)
        /\ chinese = StringValue(<<ChLiang, ChQian, ChSan, ChBai>>) => numResult = Number(2300)
        /\ chinese = StringValue(<<ChZero + 3>>) => numResult = Number(3)

NormalizeDenotedWitness ==
    /\ pc = "done"
    /\ chinese = StringValue(<<ChLiang, ChQian, ChSan, ChBai>>)
    /\ numResult = Number(2300)

\* the positions of a string that hold 万 or 亿
LargeUnitAt(chars) ==
    {i \in 1..Len(chars) : chars[i] \in DOMAIN unitMap /\ unitMap[chars[i]] >= 10000}

\* result, section and number once the loop has read the first i characters
LoopStateAfter(chars, i) ==
    NumeralLoop(SubSeq(chars, 1, i), [result |-> 0, section |-> 0, number |-> 0])

\* the digit pending before position i: the digit symbol just read, or `none`
PendingDigit(chars, i, none) ==
    IF i > 1 /\ chars[i - 1] \in DOMAIN map THEN map[chars[i - 1]] ELSE none

\* reading 万 or 亿 adds (section + d) * unit to result and resets section, where d is
\* the pending digit, or `none` when no digit is pending; a string that ends there
\* returns that result
LargeUnitRule(none) ==
    (pc = "done" /\ chinese.type = "string") =>
        \A i \in LargeUnitAt(chinese.chars) :
            LET before == LoopStateAfter(chinese.chars, i - 1)
                after  == LoopStateAfter(chinese.chars, i)
                d      == PendingDigit(chinese.chars, i, none)
                added  == (before.section + d) * unitMap[chinese.chars[i]]
            IN  /\ after.result = before.result + added
                /\ after.section = 0
                /\ i = Len(chinese.chars) => numResult = Number(before.result + added)

\* C13 as stated: at a unit symbol of value 10000 or more, the amount added to result
\* is (section + d) * unit, where d is the pending digit or an implicit 1 if there is
\* none, and section is reset to 0.
LargeUnitAddsDigitOrOne == LargeUnitRule(1)

\* C13, amended: at a unit symbol of value 10000 or more, the amount added to result is
\* (section + d) * unit, where d is the pending digit or 0 if there is none, and
\* section is reset to 0.
LargeUnitAddsDigitOrZero == LargeUnitRule(0)

\* 十万, where no digit is pending at 万, has returned 100000
LargeUnitWitness ==
    /\ pc = "done"
    /\ chinese = StringValue(<<ChShi, ChWan>>)
    /\ numResult = Number(100000)

-----------------------------------------------------------------------------
(* SpecDedupe: removeDuplicateChapters called on one chapter list.         *)

MaxChapters == 3   \* the longest chapter list handed to removeDuplicateChapters

\* titles: 第1章, 第01章 a, 第2章, and 序章, which carries no number
DedupeTitles ==
    {<<ChDi, ChZero + 1, ChZhang>>,
     <<ChDi, ChZero, ChZero + 1, ChZhang, ChSpace, ChLowerA>>,
     <<ChDi, ChZero + 2, ChZhang>>,
     <<24207, ChZhang>>}

\* bodies: a!bcdef and abcdeg (the same first five letters), abcd, and ! (no letter)
DedupeBodies ==
    {<<97, 33, 98, 99, 100, 101, 102>>,
     <<97, 98, 99, 100, 101, 103>>,
     <<97, 98, 99, 100>>,
     <<33>>}

InitDedupe ==
    /\ pc = "input"
    /\ \E n \in 0..MaxChapters :
         \E t \in [1..n -> DedupeTitles], d \in [1..n -> DedupeBodies] :
            segmented = [i \in 1..n |-> [title |-> t[i], data |-> d[i]]]
    /\ content = <<>> /\ uniqueChapters = <<>>
    /\ NumIdle /\ ConverterIdle

CallDedupe ==
    /\ pc = "input"
    /\ pc' = "done"
    /\ uniqueChapters' = removeDuplicateChapters(segmented)
    /\ UNCHANGED <<constructed, chinese, denoted, numResult, content, segmented,
                   options, call, filteredCount, epubCalls, outcome, result, calls>>

NextDedupe == CallDedupe

SpecDedupe == InitDedupe /\ [][NextDedupe]_vars

\* the chapters of a list whose title carries a number, and those whose title does not
Numbered(chapters) == SelectSeq(chapters, LAMBDA c : ~ChapterNumber(c.title).null)
Unnumbered(chapters) == SelectSeq(chapters, LAMBDA c : ChapterNumber(c.title).null)
NumberOf(c) == ChapterNumber(c.title).value

\* C2, as stated: after removeDuplicateChapters the numbered chapters are in strictly
\* ascending order of number.
StrictlyAscending ==
    pc = "done" =>
        LET out == Numbered(uniqueChapters)
        IN  \A i \in 1..(Len(out) - 1) : NumberOf(out[i]) < NumberOf(out[i + 1])

\* C2, amended: after removeDuplicateChapters the numbered chapters are in ascending
\* order of number, chapters of the same number (kept because their fingerprints
\* differ) being adjacent: no chapter is followed by one of a smaller number.
Ascending ==
    pc = "done" =>
        LET out == Numbered(uniqueChapters)
        IN  \A i \in 1..(Len(out) - 1) : NumberOf(out[i]) <= NumberOf(out[i + 1])

\* the sort moved a chapter, and two chapters of one number are both in the output
AscendingWitness ==
    /\ pc = "done"
    /\ Len(segmented) = 3
    /\ NumberOf(segmented[1]) = 2
    /\ Len(uniqueChapters) = 3
    /\ NumberOf(uniqueChapters[1]) = 1
    /\ NumberOf(uniqueChapters[2]) = 1
    /\ NumberOf(uniqueChapters[3]) = 2

\* C3: a chapter whose title carries no number passes through removeDuplicateChapters:
\* the output's unnumbered chapters are the input's, in the same order.
UnnumberedPassThrough ==
    pc = "done" => Unnumbered(uniqueChapters) = Unnumbered(segmented)

RECURSIVE Fingerprint(_, _)
\* the first n characters of a body that are ideographs, ASCII letters or digits
Fingerprint(body, n) ==
    IF n = 0 \/ body = <<>> THEN <<>>
    ELSE IF \/ Head(body) \in CjkFirst..CjkLast
            \/ Head(body) \in ChLowerA..ChLowerZ
            \/ Head(body) \in ChUpperA..ChUpperZ
            \/ Head(body) \in ChZero..ChNine
    THEN <<Head(body)>> \o Fingerprint(Tail(body), n - 1)
    ELSE Fingerprint(Tail(body), n)

\* the chapters of number num, in the order of the list
GroupOf(chapters, num) ==
    SelectSeq(chapters, LAMBDA c : ~ChapterNumber(c.title).null /\ NumberOf(c) = num)

\* the chapters of a group that the rule of C4 keeps: the first, and every later one
\* whose fingerprint is empty or differs from that of every chapter before it
Survivors(group) ==
    LET keep == {i \in 1..Len(group) :
                    \/ Fingerprint(group[i].data, FingerprintLen) = <<>>
                    \/ \A j \in 1..(i - 1) :
                          Fingerprint(group[j].data, FingerprintLen)
                            # Fingerprint(group[i].data, FingerprintLen)}
        F[i \in 0..Len(group)] ==
            IF i = 0 THEN <<>>
            ELSE IF i \in keep THEN Append(F[i - 1], group[i]) ELSE F[i - 1]
    IN  F[Len(group)]

\* C4: of every chapter-number group removeDuplicateChapters keeps the first chapter
\* and every later one whose fingerprint is empty or differs from the fingerprint of
\* every chapter kept before it, and drops the others: one survivor among chapters
\* of one non-empty fingerprint, all survive when the fingerprints differ.
KeepsFirstOfEachFingerprint ==
    pc = "done" =>
        \A num \in {NumberOf(c) : c \in {segmented[i] : i \in
                        {k \in 1..Len(segmented) : ~ChapterNumber(segmented[k].title).null}}} :
            GroupOf(uniqueChapters, num) = Survivors(GroupOf(segmented, num))

\* a group of three: the second has the first's fingerprint and is dropped, the third
\* has an empty fingerprint and is kept
KeepsFirstOfEachFingerprintWitness ==
    /\ pc = "done"
    /\ Len(segmented) = 3
    /\ \A i \in 1..3 : ~ChapterNumber(segmented[i].title).null /\ NumberOf(segmented[i]) = 1
    /\ segmented[1].data # segmented[2].data
    /\ getFirstNChars(segmented[1].data) = getFirstNChars(segmented[2].data)
    /\ getFirstNChars(segmented[3].data) = <<>>
    /\ uniqueChapters = <<segmented[1], segmented[3]>>

\* C15: removeDuplicateChapters is idempotent: a second pass over its result removes
\* nothing and reorders nothing.
DedupeIdempotent ==
    pc = "done" => removeDuplicateChapters(uniqueChapters) = uniqueChapters

\* the first pass dropped the first of three chapters and left two chapters of the
\* same number, which the second pass keeps in their order
DedupeIdempotentWitness ==
    /\ pc = "done"
    /\ Len(segmented) = 3 /\ Len(uniqueChapters) = 2
    /\ uniqueChapters = <<segmented[2], segmented[3]>>
    /\ NumberOf(uniqueChapters[1]) = NumberOf(uniqueChapters[2])
    /\ removeDuplicateChapters(uniqueChapters) = uniqueChapters

-----------------------------------------------------------------------------
(* SpecSegment: splitIntoChapters called on one text.                      *)

MaxLines == 4   \* the most lines of a text

\* heading lines, each with the integer its numeral denotes and its suffix:
\* 第一章a, 第1章 a, 第十二章, 第12章  b (two spaces before b, one after)
HeadingLines ==
    {[line |-> <<ChDi, ChYi, ChZhang, ChLowerA>>, n |-> 1, suffix |-> <<ChLowerA>>],
     [line |-> <<ChDi, ChZero + 1, ChZhang, ChSpace, ChLowerA>>, n |-> 1, suffix |-> <<ChLowerA>>],
     [line |-> <<ChDi, ChShi, ChEr, ChZhang>>, n |-> 12, suffix |-> <<>>],
     [line |-> <<ChDi, ChZero + 1, ChZero + 2, ChZhang, ChSpace, ChSpace, 98, ChSpace>>,
      n |-> 12, suffix |-> <<98>>]}

\* other lines: the empty line, ab, !, and 第12章 behind a space
BodyLines ==
    {<<>>, <<ChLowerA, 98>>, <<33>>, <<ChSpace, ChDi, ChZero + 1, ChZero + 2, ChZhang>>}

TextLines == {h.line : h \in HeadingLines} \cup BodyLines

InitSegment ==
    /\ pc = "input"
    /\ \E n \in 1..MaxLines : \E ls \in [1..n -> TextLines] : content = Join(ls)
    /\ segmented = <<>> /\ uniqueChapters = <<>>
    /\ NumIdle /\ ConverterIdle

CallSplit ==
    /\ pc = "input"
    /\ pc' = "done"
    /\ segmented' = Segment(content)
    /\ uniqueChapters' = removeDuplicateChapters(Segment(content))
    /\ UNCHANGED <<constructed, chinese, denoted, numResult, content,
                   options, call, filteredCount, epubCalls, outcome, result, calls>>

NextSegment == CallSplit

SpecSegment == InitSegment /\ [][NextSegment]_vars

\* the positions of the heading lines among the lines, in order
HeadingPositions(lines) ==
    LET F[i \in 0..Len(lines)] ==
            IF i = 0 THEN <<>>
            ELSE IF ChapterMatch(lines[i]).matched THEN Append(F[i - 1], i) ELSE F[i - 1]
    IN  F[Len(lines)]

\* C1: segmentation yields one chapter per heading line, in heading order, whose body
\* is made of exactly the lines between its heading and the next heading or the end
\* of the input (joined and trimmed, the placeholder standing for an empty body): the
\* last chapter is flushed and the lines before the first heading are in no chapter.
OneChapterPerHeading ==
    pc = "done" =>
        LET lines == Split(content)
            at    == HeadingPositions(lines)
            end(k) == IF k = Len(at) THEN Len(lines) ELSE at[k + 1] - 1
        IN  /\ Len(segmented) = Len(at)
            /\ \A k \in 1..Len(at) :
                  /\ segmented[k].title = TitleOf(lines[at[k]], ChapterMatch(lines[at[k]]))
                  /\ segmented[k].data
                       = ChapterOf(segmented[k].title, SubSeq(lines, at[k] + 1, end(k))).data

\* a text that opens with a line outside any chapter and ends inside the second of
\* two chapters, both with a body
OneChapterPerHeadingWitness ==
    /\ pc = "done"
    /\ Len(Split(content)) = 4
    /\ HeadingPositions(Split(content)) = <<2, 3>>
    /\ Split(content)[1] # <<>>
    /\ Len(segmented) = 2
    /\ segmented[1].data = Placeholder
    /\ segmented[2].data = <<ChLowerA, 98>>

\* has a sequence of lines no ideograph, ASCII letter or digit
NoFingerprintChar(lines) ==
    \A i \in 1..Len(lines) : Fingerprint(lines[i], 1) = <<>>

\* C5: chapters of one number whose bodies hold no ideograph, letter or digit (an
\* empty body among them) are all in the list splitIntoChapters returns: the list
\* has at least as many chapters of a number as the text has such headings of it.
EmptyChaptersAllKept ==
    pc = "done" =>
        LET lines == Split(content)
            at    == HeadingPositions(lines)
            end(k) == IF k = Len(at) THEN Len(lines) ELSE at[k + 1] - 1
            empty(num) == {k \in 1..Len(at) :
                             /\ NumberOf(segmented[k]) = num
                             /\ NoFingerprintChar(SubSeq(lines, at[k] + 1, end(k)))}
        IN  \A k \in 1..Len(at) :
               Len(GroupOf(uniqueChapters, NumberOf(segmented[k])))
                  >= Cardinality(empty(NumberOf(segmented[k])))

\* the titles of a chapter list, in order
Titles(chapters) == [i \in 1..Len(chapters) |-> chapters[i].title]

\* a chapter list as plain text: each chapter's title line, then its body
Serialize(chapters) ==
    Join(Concat([i \in 1..Len(chapters) |-> <<chapters[i].title, chapters[i].data>>]))

\* C6, as stated: splitIntoChapters of the re-serialized result of splitIntoChapters
\* has the same number of chapters and the same titles in the same order.
RoundTripStable ==
    pc = "done" =>
        Titles(splitIntoChapters(Serialize(uniqueChapters))) = Titles(uniqueChapters)

\* does the body of a chapter open with a line that is a heading
OpensWithHeading(chapter) == ChapterMatch(Split(chapter.data)[1]).matched

\* C6, amended: the round trip keeps the chapter count and the titles in order when
\* no chapter body of the first result opens with a heading line (trim() makes one
\* of a heading that stood behind white space as the first text of a body).
RoundTripStableUnlessHeadingExposed ==
    (pc = "done" /\ \A i \in 1..Len(uniqueChapters) : ~OpensWithHeading(uniqueChapters[i]))
        => Titles(splitIntoChapters(Serialize(uniqueChapters))) = Titles(uniqueChapters)

\* a first result that dropped a duplicate and moved chapter 1 before chapter 12
RoundTripWitness ==
    /\ pc = "done"
    /\ Len(segmented) = 3
    /\ Len(uniqueChapters) = 2
    /\ NumberOf(segmented[1]) = 12
    /\ NumberOf(uniqueChapters[1]) = 1
    /\ \A i \in 1..Len(uniqueChapters) : ~OpensWithHeading(uniqueChapters[i])
    /\ splitIntoChapters(Serialize(uniqueChapters)) = uniqueChapters

\* the decimal string of n: the digit string without a leading zero that denotes n
Decimal(n) ==
    CHOOSE s \in UNION {DigitStrings(k) : k \in 1..2} :
        (Len(s) > 1 => s[1] # ChZero) /\ DecimalValue(s) = n

CanonicalTitle(n, suffix) ==
    <<ChDi>> \o Decimal(n) \o <<ChZhang>>
        \o (IF suffix # <<>> THEN <<ChSpace>> \o suffix ELSE <<>>)

\* the headings of a text, in order, each with the integer and the suffix it denotes
HeadingsOf(lines) ==
    LET F[i \in 0..Len(lines)] ==
            IF i = 0 THEN <<>>
            ELSE IF \E h \in HeadingLines : h.line = lines[i]
            THEN Append(F[i - 1], CHOOSE h \in HeadingLines : h.line = lines[i])
            ELSE F[i - 1]
    IN  F[Len(lines)]

\* C8: a chapter's title is 第, the decimal number its heading's numeral denotes, 章,
\* then one space and the trimmed suffix if there is one, whatever the notation of the
\* numeral: headings denoting one integer get one title (given one suffix) and fall
\* into one chapter-number group of removeDuplicateChapters.
TitleIsCanonical ==
    pc = "done" =>
        LET hs == HeadingsOf(Split(content))
            chapterMap == GroupLoop(segmented, <<>>)
        IN  /\ Len(segmented) = Len(hs)
            /\ \A k \in 1..Len(hs) :
                  segmented[k].title = CanonicalTitle(hs[k].n, hs[k].suffix)
            /\ \A j, k \in 1..Len(hs) :
                  hs[j].n = hs[k].n =>
                     /\ hs[j].suffix = hs[k].suffix => segmented[j].title = segmented[k].title
                     /\ \E g \in 1..Len(chapterMap) :
                           /\ chapterMap[g].num = hs[j].n
                           /\ \E a, b \in 1..Len(chapterMap[g].list) :
                                 /\ chapterMap[g].list[a] = segmented[j]
                                 /\ chapterMap[g].list[b] = segmented[k]

\* 第一章a and 第1章 a in one text: one title, one group
TitleIsCanonicalWitness ==
    /\ pc = "done"
    /\ Split(content) = <<<<ChDi, ChYi, ChZhang, ChLowerA>>,
                          <<ChDi, ChZero + 1, ChZhang, ChSpace, ChLowerA>>>>
    /\ Len(segmented) = 2
    /\ segmented[1].title = <<ChDi, ChZero + 1, ChZhang, ChSpace, ChLowerA>>
    /\ segmented[2].title = segmented[1].title
    /\ Len(GroupLoop(segmented, <<>>)) = 1

-----------------------------------------------------------------------------
(* The converter: constructor, processTextFile, countTotalWords and        *)
(* convertTxtToEpub.                                                       *)

ChBOM == 65279   \* 0xFEFF

\* this.options after the constructor; a filterAds of the argument overrides the
\* computed one (...options).  cssStyle plays no part in what is modelled.
Constructor(ctor) ==
    [filterAds  |-> IF ctor.hasFilterAds THEN ctor.filterAds
                    ELSE ctor.adKeywords.given /\ Len(ctor.adKeywords.list) > 0,
     adKeywords |-> IF ctor.adKeywords.given THEN ctor.adKeywords.list ELSE <<>>]

\* a call without keywords leaves filterAds as the call before left it
UpdateOptionsNoReset(opts, adKeywords) ==
    IF adKeywords.given /\ Len(adKeywords.list) > 0
    THEN [filterAds |-> TRUE, adKeywords |-> adKeywords.list]
    ELSE opts

\* lines 430-436 of convertTxtToEpub: this.options after the call's adKeywords
UpdateOptions(opts, adKeywords) ==
    IF adKeywords.given /\ Len(adKeywords.list) > 0
    THEN [filterAds |-> TRUE, adKeywords |-> adKeywords.list]
    ELSE [opts EXCEPT !.filterAds = FALSE]

\* the filter drops a line only when it holds every keyword
KeepLineUnlessAll(line, adKeywords) ==
    ~(\A i \in 1..Len(adKeywords) : Includes(line, adKeywords[i]))

\* the callback of lines.filter
KeepLine(line, adKeywords) ==
    ~(\E i \in 1..Len(adKeywords) : Includes(line, adKeywords[i]))

\* processTextFile on an existing file of the given content: the processed content,
\* and filteredCount when the filter ran
processTextFile(file, opts) ==
    LET stripped == IF file # <<>> /\ file[1] = ChBOM THEN Tail(file) ELSE file
        lines    == Split(stripped)
        filteredLines == SelectSeq(lines, LAMBDA line : KeepLine(line, opts.adKeywords))
    IN  IF opts.filterAds
        THEN [content |-> Join(filteredLines),
              filteredCount |-> Number(Len(lines) - Len(filteredLines))]
        ELSE [content |-> stripped, filteredCount |-> Null]

RECURSIVE countTotalWordsWithSpace(_)
\* white space is counted too
countTotalWordsWithSpace(chapters) ==
    IF chapters = <<>> THEN 0
    ELSE Len(Head(chapters).data) + countTotalWordsWithSpace(Tail(chapters))

RECURSIVE countTotalWords(_)
countTotalWords(chapters) ==
    IF chapters = <<>> THEN 0
    ELSE Len(SelectSeq(Head(chapters).data, LAMBDA c : ~IsSpace(c)))
         + countTotalWords(Tail(chapters))

\* the zero-chapter check is left out
EmptyChapterSetNever(chapters) == FALSE

\* chapters.length === 0
EmptyChapterSet(chapters) == Len(chapters) = 0

-----------------------------------------------------------------------------
(* Spec: one converter instance and the convertTxtToEpub calls made on it, *)
(* one after the other.                                                    *)

MaxCalls     == 2   \* the most calls made on the instance
MaxFileLines == 3   \* the most lines of an input file

\* the keyword 广告
KwAd == <<24191, 21578>>

\* keyword arguments: none, [], [广告], [ab, 广告], ['']
KeywordArgs ==
    {NoKeywords, Keywords(<<>>), Keywords(<<KwAd>>),
     Keywords(<<<<ChLowerA, 98>>, KwAd>>), Keywords(<<<<>>>>)}

\* lines of a file: 第一章, ab, !广告, 第一章 behind a byte-order mark
FileLines ==
    {<<ChDi, ChYi, ChZhang>>,
     <<ChLowerA, 98>>,
     <<33>> \o KwAd,
     <<ChBOM, ChDi, ChYi, ChZhang>>}

Init ==
    /\ pc = "idle"
    /\ \E kw \in {NoKeywords, Keywords(<<KwAd>>)}, hasFilterAds \in BOOLEAN, f \in BOOLEAN :
          options = Constructor([adKeywords |-> kw, hasFilterAds |-> hasFilterAds,
                                 filterAds |-> hasFilterAds /\ f])
    /\ constructed = options
    /\ calls = 0
    /\ CallIdle /\ NumIdle /\ TextIdle

\* a call without inputFile, outputFile, title, author or maker throws at once
ConvertMissingParams ==
    /\ pc = "idle" /\ calls < MaxCalls
    /\ calls' = calls + 1
    /\ pc' = "returned"
    /\ outcome' = "rejected"
    /\ UNCHANGED <<constructed, chinese, denoted, numResult, content, segmented, uniqueChapters,
                   options, call, filteredCount, epubCalls, result>>

\* a call whose inputFile does not exist: processTextFile throws
ConvertNoFile ==
    /\ pc = "idle" /\ calls < MaxCalls
    /\ \E kw \in KeywordArgs :
          /\ call' = [adKeywords |-> kw, fileExists |-> FALSE, file |-> <<>>]
          /\ options' = UpdateOptions(options, kw)
    /\ calls' = calls + 1
    /\ pc' = "returned"
    /\ outcome' = "rejected"
    /\ UNCHANGED <<constructed, chinese, denoted, numResult, content, segmented, uniqueChapters,
                   filteredCount, epubCalls, result>>

\* the file of scenario A: 第一章 开始 / 你好 / (empty line) / 第二章 / 世界
ScenarioA ==
    Join(<<<<ChDi, ChYi, ChZhang, ChSpace, 24320, 22987>>,
           <<20320, 22909>>,
           <<>>,
           <<ChDi, ChEr, ChZhang>>,
           <<19990, 30028>>>>)

\* a call with the keywords kw on an existing file of the given content, up to
\* `await new EPub(...).promise` or to the throw;
\* the cover page, the information page and the HTML of the chapters, which are
\* handed to EPub and kept nowhere in the converter, are left out
ConvertOn(kw, file) ==
    LET opts     == UpdateOptions(options, kw)
        text     == processTextFile(file, opts)
        chapters == splitIntoChapters(text.content)
    IN  /\ call' = [adKeywords |-> kw, fileExists |-> TRUE, file |-> file]
        /\ options' = opts
        /\ content' = text.content
        /\ filteredCount' = text.filteredCount
        /\ segmented' = Segment(text.content)
        /\ uniqueChapters' = chapters
        /\ IF EmptyChapterSet(chapters)
           THEN /\ pc' = "returned"
                /\ outcome' = "rejected"
                /\ UNCHANGED <<epubCalls, result>>
           ELSE /\ pc' = "awaitEPub"
                /\ epubCalls' = epubCalls + 1
                /\ result' = [chapters |-> Len(chapters),
                              totalWords |-> countTotalWords(chapters)]
                /\ UNCHANGED outcome

ConvertFile ==
    /\ pc = "idle" /\ calls < MaxCalls
    /\ \E kw \in KeywordArgs :
          \/ \E n \in 1..MaxFileLines : \E ls \in [1..n -> FileLines] : ConvertOn(kw, Join(ls))
          \/ ConvertOn(kw, ScenarioA)
    /\ calls' = calls + 1
    /\ UNCHANGED <<constructed, chinese, denoted, numResult>>

\* the promise of the EPub object resolves: the call returns its result
EPubResolve ==
    /\ pc = "awaitEPub"
    /\ pc' = "returned"
    /\ outcome' = "resolved"
    /\ UNCHANGED <<constructed, chinese, denoted, numResult, content, segmented, uniqueChapters,
                   options, call, filteredCount, epubCalls, result, calls>>

\* the promise rejects: the catch block logs and rethrows
EPubReject ==
    /\ pc = "awaitEPub"
    /\ pc' = "returned"
    /\ outcome' = "rejected"
    /\ UNCHANGED <<constructed, chinese, denoted, numResult, content, segmented, uniqueChapters,
                   options, call, filteredCount, epubCalls, result, calls>>

\* the caller is done with the call; only this.options outlives it
Return ==
    /\ pc = "returned"
    /\ pc' = "idle"
    /\ call' = NoCall /\ filteredCount' = Null
    /\ epubCalls' = 0 /\ outcome' = "none" /\ result' = NoResult
    /\ content' = <<>> /\ segmented' = <<>> /\ uniqueChapters' = <<>>
    /\ UNCHANGED <<constructed, chinese, denoted, numResult, options, calls>>

Next ==
    \/ ConvertMissingParams
    \/ ConvertNoFile
    \/ ConvertFile
    \/ EPubResolve
    \/ EPubReject
    \/ Return

Spec == Init /\ [][Next]_vars

\* k occurs in line: line is some a characters, then k, then the rest
Contains(line, k) ==
    \E a \in 0..(Len(line) - Len(k)) : \A j \in 1..Len(k) : line[a + j] = k[j]

\* the keywords a call configures
CallKeywords == IF call.adKeywords.given THEN call.adKeywords.list ELSE <<>>

HasKeyword(line) == \E i \in 1..Len(CallKeywords) : Contains(line, CallKeywords[i])

\* the lines of the file a call reads, the byte-order mark aside
CallLines ==
    Split(IF call.file # <<>> /\ call.file[1] = ChBOM THEN Tail(call.file) ELSE call.file)

\* C9: the filtered text of a call is its file's lines without those that hold a
\* configured keyword, in order; without keywords it is the file's text and no line
\* counts as dropped; a line holding a keyword is no line of the filtered text nor of
\* a chapter body made from it.
FilterIsSelection ==
    (pc # "idle" /\ call.fileExists) =>
        /\ content = Join(SelectSeq(CallLines, LAMBDA line : ~HasKeyword(line)))
        /\ CallKeywords = <<>> =>
              /\ content = Join(CallLines)
              /\ filteredCount = Null \/ filteredCount = Number(0)
        /\ ~filteredCount.null =>
              filteredCount.value
                 = Cardinality({i \in 1..Len(CallLines) : HasKeyword(CallLines[i])})
        /\ \A i \in 1..Len(Split(content)) :
              content # <<>> => ~HasKeyword(Split(content)[i])
        /\ \A c \in 1..Len(uniqueChapters) :
              \/ uniqueChapters[c].data = Placeholder
              \/ \A i \in 1..Len(Split(uniqueChapters[c].data)) :
                    ~HasKeyword(Split(uniqueChapters[c].data)[i])

\* with the keyword 广告, a chapter's body is without the line !广告
FilterIsSelectionWitness ==
    /\ pc = "awaitEPub"
    /\ Len(CallKeywords) = 1
    /\ Len(CallLines) = 3
    /\ HasKeyword(CallLines[2])
    /\ ~HasKeyword(CallLines[3])
    /\ filteredCount = Number(1)
    /\ Len(uniqueChapters) = 1
    /\ uniqueChapters[1].data = CallLines[3]

\* C10: a call whose text yields no chapter (no line of it is a heading, for one)
\* fails and never constructs the EPub object; the EPub object is constructed only
\* once a non-empty chapter list exists.
PackagingNeedsChapters ==
    /\ (pc # "idle" /\ call.fileExists /\ Len(uniqueChapters) = 0) =>
          outcome = "rejected" /\ epubCalls = 0
    /\ (pc # "idle" /\ call.fileExists
          /\ \A i \in 1..Len(Split(content)) : ~ChapterMatch(Split(content)[i]).matched) =>
          outcome = "rejected" /\ epubCalls = 0
    /\ epubCalls > 0 => call.fileExists /\ Len(uniqueChapters) > 0
    /\ outcome = "resolved" => epubCalls > 0

\* a call on a text of two lines, neither a heading, has failed
PackagingNeedsChaptersWitness ==
    /\ pc = "returned"
    /\ call.fileExists
    /\ Len(Split(content)) = 2
    /\ Split(content)[1] # <<>>
    /\ Len(uniqueChapters) = 0
    /\ outcome = "rejected"
    /\ epubCalls = 0

\* C11: a converter constructed with filterAds true and keywords applies them in the
\* convertTxtToEpub call that follows, also when the call carries no keywords: no line
\* with a keyword of the constructor is left in the text handed to splitIntoChapters.
ConstructorKeywordsApplied ==
    (/\ pc # "idle" /\ calls = 1 /\ call.fileExists
     /\ constructed.filterAds /\ constructed.adKeywords # <<>>
     /\ ~(call.adKeywords.given /\ Len(call.adKeywords.list) > 0)) =>
        \A i \in 1..Len(Split(content)) :
            \A k \in 1..Len(constructed.adKeywords) :
                ~Contains(Split(content)[i], constructed.adKeywords[k])

\* the sum over the chapters of the number of characters of the body that \s does
\* not match
RECURSIVE NonSpaceCount(_, _)
NonSpaceCount(chapters, i) ==
    IF i > Len(chapters) THEN 0
    ELSE Cardinality({j \in 1..Len(chapters[i].data) : chapters[i].data[j] \notin WhiteSpace})
         + NonSpaceCount(chapters, i + 1)

\* C12: the totalWords of a conversion is the sum over the final chapter list of the
\* number of non-whitespace characters of each body, and its chapter count the length
\* of that list; the text of scenario A gives 2 chapters and 4 words.
StatsOfFinalList ==
    (pc \in {"awaitEPub", "returned"} /\ epubCalls > 0) =>
        /\ result.chapters = Len(uniqueChapters)
        /\ result.totalWords = NonSpaceCount(uniqueChapters, 1)
        /\ (call.file = ScenarioA /\ CallKeywords = <<>>) =>
              result = [chapters |-> 2, totalWords |-> 4]

\* scenario A has resolved with its two chapters
StatsOfFinalListWitness ==
    /\ pc = "returned" /\ outcome = "resolved"
    /\ call.file = ScenarioA
    /\ Len(uniqueChapters) = 2
    /\ uniqueChapters[1].data = <<20320, 22909>>
    /\ result = [chapters |-> 2, totalWords |-> 4]

\* what a converter constructed without options, in its first call, makes of the
\* arguments of the current call
OnFreshConverter ==
    LET fresh == Constructor([hasFilterAds |-> FALSE, filterAds |-> FALSE,
                              adKeywords |-> NoKeywords])
        text  == processTextFile(call.file, UpdateOptions(fresh, call.adKeywords))
    IN  [content |-> text.content, filteredCount |-> text.filteredCount,
         chapters |-> splitIntoChapters(text.content)]

\* C14: the lines a convertTxtToEpub call filters and the chapters it produces are
\* determined by the arguments and the text of that call alone: they are what a fresh
\* converter gives, whatever keywords the constructor and the calls before were given.
OwnArgumentsAlone ==
    (pc # "idle" /\ call.fileExists) =>
        /\ content = OnFreshConverter.content
        /\ filteredCount = OnFreshConverter.filteredCount
        /\ uniqueChapters = OnFreshConverter.chapters

\* a second call without keywords, after a first call that left its keywords in
\* this.options, keeps the line !广告 as the body of its chapter
OwnArgumentsAloneWitness ==
    /\ calls = 2 /\ pc = "awaitEPub"
    /\ ~call.adKeywords.given
    /\ options.adKeywords = <<KwAd>> /\ constructed.adKeywords = <<>>
    /\ call.file = Join(<<<<ChDi, ChYi, ChZhang>>, <<33>> \o KwAd>>)
    /\ filteredCount = Null
    /\ Len(uniqueChapters) = 1 /\ uniqueChapters[1].data = <<33>> \o KwAd

====
